---- MODULE Spec2Model ----
(***************************************************************************)
(* A model of the University Document Generator:                           *)
(*   backend/enhanced_document_generator.py  (EnhancedDocumentGenerator)   *)
(*   backend/enhanced_main.py                (the FastAPI handlers)        *)
(* Text is modelled by TLA+ strings, one character per position, so that   *)
(* replace(), slicing and str.format() are computed character by           *)
(* character as Python computes them.                                      *)
(***************************************************************************)
EXTENDS Integers, Sequences, FiniteSets, TLC

VARIABLES
    files,      \* the file system: path -> [doc, written, ctime]
    dirExists,  \* whether the directory "generated" exists
    now,        \* the clock: the seconds of the modelled day that have passed
    last,       \* the last completed call: its operation, arguments and outcome
    nops,       \* number of calls made so far
    pc,         \* per worker: position inside generate_and_save
    loc,        \* per worker: the locals of its generate_and_save call
    sup         \* the supervisor of start_system.py: its threads, its list and its children

vars == <<files, dirExists, now, last, nops, pc, loc, sup>>

-----------------------------------------------------------------------------
(* Bounds of the model *)

MaxOps == 3          \* requests per behaviour of the server
MaxCalls == 1        \* direct calls of generate_and_save per behaviour
MaxWorkers == 2      \* concurrent callers of generate_and_save
MaxTicks == 1        \* seconds the clock may advance
MaxNameLen == 2      \* length of the enumerated student names
MaxTailLen == 2      \* length of the enumerated tail of a purpose
MaxChildren == 3     \* child processes the supervisor may create per behaviour

-----------------------------------------------------------------------------
(* Python str primitives *)

Min(a, b) == IF a < b THEN a ELSE b

CharAt(s, i) == SubSeq(s, i, i)

\* s[:n]
Slice(s, n) == SubSeq(s, 1, Min(n, Len(s)))

\* s[n:]
Drop(s, n) == SubSeq(s, n + 1, Len(s))

\* c * n
RECURSIVE Rep(_, _)
Rep(c, n) == IF n <= 0 THEN "" ELSE c \o Rep(c, n - 1)

\* sub in s
Contains(s, sub) ==
    \E i \in 1..(Len(s) - Len(sub) + 1) : SubSeq(s, i, i + Len(sub) - 1) = sub

\* The rules drawn under the header and above the signature
SeparatorRule == Rep("_", 80)
SignatureRule == Rep("_", 40)

StartsWith(s, pre) == Len(pre) <= Len(s) /\ SubSeq(s, 1, Len(pre)) = pre

EndsWith(s, suf) ==
    Len(suf) <= Len(s) /\ SubSeq(s, Len(s) - Len(suf) + 1, Len(s)) = suf

\* s.find(c) + 1: the position of the first c in s, 0 if there is none
Find(s, c) ==
    LET at == {i \in 1..Len(s) : CharAt(s, i) = c}
    IN  IF at = {} THEN 0 ELSE CHOOSE i \in at : \A j \in at : i <= j

\* s.replace(old, new) for a one-character old: every occurrence, from the
\* left
RECURSIVE Replace(_, _, _)
Replace(s, old, new) ==
    LET i == Find(s, old)
    IN  IF i = 0 THEN s
        ELSE Slice(s, i - 1) \o new \o Replace(Drop(s, i), old, new)

Lower == "abcdefghijklmnopqrstuvwxyz"
UpperCase == "ABCDEFGHIJKLMNOPQRSTUVWXYZ"

\* c.upper() and c.lower() of one letter
ToUpper == [c \in {CharAt(Lower, i) : i \in 1..Len(Lower)} |-> CharAt(UpperCase, Find(Lower, c))]
ToLower == [c \in {CharAt(UpperCase, i) : i \in 1..Len(UpperCase)} |-> CharAt(Lower, Find(UpperCase, c))]

IsLetter(c) == c \in DOMAIN ToUpper \/ c \in DOMAIN ToLower

MapChar(c, table) == IF c \in DOMAIN table THEN table[c] ELSE c

\* s.upper()
RECURSIVE Upper(_)
Upper(s) ==
    IF s = "" THEN ""
    ELSE MapChar(CharAt(s, 1), ToUpper) \o Upper(Drop(s, 1))

\* s.title(): a letter that follows a non-letter is upper-cased, any other
\* letter lower-cased
RECURSIVE TitleFrom(_, _)
TitleFrom(s, afterLetter) ==
    IF s = "" THEN ""
    ELSE LET c == CharAt(s, 1)
         IN  (IF afterLetter THEN MapChar(c, ToLower) ELSE MapChar(c, ToUpper))
                 \o TitleFrom(Drop(s, 1), IsLetter(c))

Title(s) == TitleFrom(s, FALSE)

\* template.format(**kwargs): literal text is copied, a replacement field
\* {name} is replaced by kwargs[name]; the inserted value is not scanned
\* again.  Raises KeyError for a name kwargs lacks and ValueError for a
\* brace without its partner.  The templates of this program contain no
\* doubled braces, no conversions and no format specifications.

\* The exception format raises, with its argument: the first from the left
RECURSIVE FormatRaises(_, _)
FormatRaises(template, kwargs) ==
    LET open == Find(template, "{")
        literal == IF open = 0 THEN template ELSE Slice(template, open - 1)
        close == Find(Drop(template, open), "}")
        name == SubSeq(template, open + 1, open + close - 1)
    IN  IF Find(literal, "}") # 0 THEN [exc |-> "ValueError", text |-> ""]
        ELSE IF open = 0 THEN [exc |-> "none", text |-> ""]
        ELSE IF close = 0 THEN [exc |-> "ValueError", text |-> ""]
        ELSE IF name \notin DOMAIN kwargs THEN [exc |-> "KeyError", text |-> name]
        ELSE FormatRaises(Drop(template, open + close), kwargs)

\* The text format returns when it raises nothing
RECURSIVE FormatText(_, _)
FormatText(template, kwargs) ==
    LET open == Find(template, "{")
        close == Find(Drop(template, open), "}")
    IN  IF open = 0 THEN template
        ELSE Slice(template, open - 1)
                 \o kwargs[SubSeq(template, open + 1, open + close - 1)]
                 \o FormatText(Drop(template, open + close), kwargs)

Format(template, kwargs) ==
    IF FormatRaises(template, kwargs).exc # "none" THEN FormatRaises(template, kwargs)
    ELSE [exc |-> "none", text |-> FormatText(template, kwargs)]

-----------------------------------------------------------------------------
(* datetime.now().strftime(...) and uuid.uuid4() *)

Digit(n) == CharAt("0123456789", n + 1)

Pad2(n) == Digit((n \div 10) % 10) \o Digit(n % 10)

\* The clock counts the seconds of the modelled day, 2025-11-02, as they
\* pass; the machine keeps the time of New York, where this day's local
\* time is set back from 02:00:00 to 01:00:00.
StartClock == 1 * 3600 + 59 * 60 + 59

Clock == StartClock..(StartClock + MaxTicks)

FallBack == 2 * 3600

\* datetime.now() and datetime.fromtimestamp(t): the local time of day at
\* the second t, in seconds
Local(t) == IF t < FallBack THEN t ELSE t - 3600

Hour(l) == Pad2((l \div 3600) % 24)
Minute(l) == Pad2((l \div 60) % 60)
Second(l) == Pad2(l % 60)

\* strftime("%Y%m%d_%H%M%S")
StrfFilename(t) ==
    "20251102" \o "_" \o Hour(Local(t)) \o Minute(Local(t)) \o Second(Local(t))

\* strftime("%B %d, %Y")
StrfFooter(t) == "November 02, 2025"

\* strftime("%Y-%m-%d %H:%M:%S")
StrfComment(t) ==
    "2025-11-02 " \o Hour(Local(t)) \o ":" \o Minute(Local(t)) \o ":" \o Second(Local(t))

\* datetime.fromtimestamp(t).isoformat() for a time of whole seconds
IsoFormat(t) ==
    "2025-11-02T" \o Hour(Local(t)) \o ":" \o Minute(Local(t)) \o ":" \o Second(Local(t))

\* The characters of these strings in the order of their code points
CodePoints == "-.0123456789:T_"

\* a < b for str: the first position where they differ decides, a proper
\* prefix is smaller
StrLess(a, b) ==
    LET differ == {i \in 1..Min(Len(a), Len(b)) : CharAt(a, i) # CharAt(b, i)}
        first == CHOOSE i \in differ : \A j \in differ : i <= j
    IN  IF differ = {} THEN Len(a) < Len(b)
        ELSE Find(CodePoints, CharAt(a, first)) < Find(CodePoints, CharAt(b, first))

\* Values str(uuid.uuid4()) can take: 36 characters, version nibble 4.  Two
\* of them agree on their first eight characters.
Uuid4 ==
    { "3f2b8c1e-9a4d-4c6b-8f01-2d3e4f5a6b7c",
      "3f2b8c1e-17c2-4e0a-b5d9-90ab12cd34ef",
      "a81d04f7-5b6e-4d21-9c3a-0f1e2d3c4b5a" }

-----------------------------------------------------------------------------
(* EnhancedDocumentGenerator.__init__: the reference data *)

universities ==
    [ harvard  |-> [name |-> "Harvard University", address |-> "Cambridge, MA 02138",
                    phone |-> "(617) 495-1000", website |-> "harvard.edu",
                    color |-> "8B0000"],
      stanford |-> [name |-> "Stanford University", address |-> "Stanford, CA 94305",
                    phone |-> "(650) 723-2300", website |-> "stanford.edu",
                    color |-> "CC0000"],
      mit      |-> [name |-> "Massachusetts Institute of Technology",
                    address |-> "Cambridge, MA 02139", phone |-> "(617) 253-1000",
                    website |-> "mit.edu", color |-> "8A2BE2"],
      generic  |-> [name |-> "University", address |-> "University Address",
                    phone |-> "University Phone", website |-> "university.edu",
                    color |-> "2F4F4F"] ]

document_templates ==
    [ bonafide |->
        [title |-> "BONAFIDE CERTIFICATE",
         template |-> "This is to certify that {student_name}, Roll No: {roll_number}, is a bonafide student of this institution. He/She has been studying in this institution since {admission_date} in the {course} program in the Department of {department}. This certificate is issued for the purpose of {purpose}."],
      noc |->
        [title |-> "NO OBJECTION CERTIFICATE",
         template |-> "This is to certify that we have no objection to {student_name}, Roll No: {roll_number}, a student of {course} program in the Department of {department}, for {purpose}. The student is in good academic standing and has no disciplinary issues."],
      character |->
        [title |-> "CHARACTER CERTIFICATE",
         template |-> "This is to certify that {student_name}, Roll No: {roll_number}, is a student of {course} program in the Department of {department}. During his/her stay in this institution, his/her character and conduct have been found to be satisfactory. This certificate is issued for {purpose}."],
      transfer |->
        [title |-> "TRANSFER CERTIFICATE",
         template |-> "This is to certify that {student_name}, Roll No: {roll_number}, was a student of this institution from {admission_date} studying {course} in the Department of {department}. He/She is now seeking transfer for {purpose}. His/Her character and conduct during the stay were satisfactory."],
      fee_structure |->
        [title |-> "FEE STRUCTURE LETTER",
         template |-> "This letter provides the official fee structure for {student_name}, Roll No: {roll_number}, enrolled in {course} program in the Department of {department}. This information is provided for {purpose}. Please contact the finance office for detailed fee breakdown."],
      transcript |->
        [title |-> "ACADEMIC TRANSCRIPT REQUEST",
         template |-> "This acknowledges the request for official academic transcripts for {student_name}, Roll No: {roll_number}, enrolled in {course} program in the Department of {department}. The transcripts are requested for {purpose}. Official transcripts will be processed within 5-7 business days."] ]

\* The named fields generate_document reads from student_data, in the order
\* it reads them (lines 246-255).
RequiredFields ==
    <<"student_name", "roll_number", "course", "department", "admission_date", "purpose">>

FieldNames == {RequiredFields[i] : i \in 1..Len(RequiredFields)}

-----------------------------------------------------------------------------
(* generate_unique_filename *)

PurposeLimit == 20
UniqueIdLen == 8

\* Mutants of generate_unique_filename: the unique id left out; the purpose
\* left as given; the purpose not cut
generate_unique_filename_no_id(document_type, student_name, purpose, t, uuid4) ==
    LET timestamp == StrfFilename(t)
        clean_name == Replace(Replace(student_name, " ", "_"), "/", "_")
        clean_purpose == Slice(Replace(Replace(purpose, " ", "_"), "/", "_"), PurposeLimit)
    IN  document_type \o "_" \o clean_name \o "_" \o clean_purpose \o "_"
            \o timestamp \o ".docx"

generate_unique_filename_raw_purpose(document_type, student_name, purpose, t, uuid4) ==
    LET timestamp == StrfFilename(t)
        unique_id == Slice(uuid4, UniqueIdLen)
        clean_name == Replace(Replace(student_name, " ", "_"), "/", "_")
        clean_purpose == Slice(purpose, PurposeLimit)
    IN  document_type \o "_" \o clean_name \o "_" \o clean_purpose \o "_"
            \o timestamp \o "_" \o unique_id \o ".docx"

generate_unique_filename_uncut(document_type, student_name, purpose, t, uuid4) ==
    LET timestamp == StrfFilename(t)
        unique_id == Slice(uuid4, UniqueIdLen)
        clean_name == Replace(Replace(student_name, " ", "_"), "/", "_")
        clean_purpose == Replace(Replace(purpose, " ", "_"), "/", "_")
    IN  document_type \o "_" \o clean_name \o "_" \o clean_purpose \o "_"
            \o timestamp \o "_" \o unique_id \o ".docx"

generate_unique_filename(document_type, student_name, purpose, t, uuid4) ==
    LET timestamp == StrfFilename(t)
        unique_id == Slice(uuid4, UniqueIdLen)
        clean_name == Replace(Replace(student_name, " ", "_"), "/", "_")
        clean_purpose == Slice(Replace(Replace(purpose, " ", "_"), "/", "_"), PurposeLimit)
    IN  document_type \o "_" \o clean_name \o "_" \o clean_purpose \o "_"
            \o timestamp \o "_" \o unique_id \o ".docx"

-----------------------------------------------------------------------------
(* The document object (python-docx Document) and its composition *)

\* Document(): no paragraph yet, empty core properties
NewDocument ==
    [ margins |-> <<>>, watermark |-> "", paragraphs |-> <<>>,
      core_properties |-> [title |-> "", subject |-> "", author |-> "", comments |-> ""] ]

\* doc.add_paragraph().add_run(text), tagged with the block that adds it
AddParagraph(doc, block, text) ==
    [doc EXCEPT !.paragraphs = Append(@, [block |-> block, text |-> text])]

add_watermark(doc, text) == [doc EXCEPT !.watermark = text]

\* Mutant of add_university_logo_placeholder: the placeholder is left out
add_university_logo_placeholder_none(doc, university_name) == doc

add_university_logo_placeholder(doc, university_name) ==
    AddParagraph(doc, "logo", "[" \o university_name \o " LOGO]")

create_document_header(doc, university_data) ==
    LET d1 == AddParagraph(doc, "header", Upper(university_data.name))
        d2 == AddParagraph(d1, "header", "Office of the Registrar")
        d3 == AddParagraph(d2, "header",
                  university_data.address \o "\nTel: " \o university_data.phone)
    IN  AddParagraph(d3, "header", SeparatorRule)

create_document_title(doc, title) ==
    LET d1 == AddParagraph(doc, "space", "")
        d2 == AddParagraph(d1, "title", title)
    IN  AddParagraph(d2, "space", "")

create_document_body(doc, template_text, student_data) ==
    AddParagraph(doc, "body", template_text)

create_document_footer(doc, university_data, student_data, t) ==
    LET d1 == AddParagraph(doc, "space", "")
        d2 == AddParagraph(d1, "footer", "Date: " \o StrfFooter(t))
        d3 == AddParagraph(d2, "footer", "Place: " \o university_data.name)
        d4 == AddParagraph(d3, "space", "")
        d5 == AddParagraph(d4, "footer", SignatureRule)
        d6 == AddParagraph(d5, "footer", "Registrar")
    IN  AddParagraph(d6, "footer", university_data.name)

add_document_metadata(doc, student_data, document_type, t) ==
    [doc EXCEPT !.core_properties =
        [ title    |-> Title(document_type) \o " - " \o student_data["student_name"],
          subject  |-> "University Document: " \o document_type,
          author   |-> "University Registrar Office",
          comments |-> "Generated for " \o student_data["student_name"] \o " on "
                           \o StrfComment(t) ]]

\* Mutant of FormattedName: the honorific left out
FormattedName_plain(student_name) == student_name

\* formatted_name: the student's name behind a generic honorific
FormattedName(student_name) == "Mr./Ms. " \o student_name

\* The first field of RequiredFields that student_data lacks, "" if none:
\* student_data[field] raises KeyError(field) there.
FirstMissing(student_data) ==
    LET miss == {i \in 1..Len(RequiredFields) : RequiredFields[i] \notin DOMAIN student_data}
    IN  IF miss = {} THEN ""
        ELSE RequiredFields[CHOOSE i \in miss : \A j \in miss : i <= j]

\* Mutant of Raised: the lookup fails as a dictionary does, with KeyError
Raised_KeyError(exc, detail, stages) ==
    [exc |-> "KeyError", detail |-> detail, doc |-> NewDocument, filename |-> "",
     stages |-> stages]

\* What a failed call returns in place of a document and a filename
Raised(exc, detail, stages) ==
    [exc |-> exc, detail |-> detail, doc |-> NewDocument, filename |-> "", stages |-> stages]

\* generate_document: the result is (doc, filename), or the exception raised.
\* stages lists the stages of the orchestration entered so far.
generate_document(university_code, document_type, student_data, t, uuid4) ==
    IF university_code \notin DOMAIN universities
    THEN Raised("ValueError", "Invalid university code: " \o university_code,
                <<"lookup_profile">>)
    ELSE IF document_type \notin DOMAIN document_templates
    THEN Raised("ValueError", "Invalid document type: " \o document_type,
                <<"lookup_profile", "lookup_template">>)
    ELSE
    LET university_data == universities[university_code]
        template_data == document_templates[document_type]
        d0 == [NewDocument EXCEPT !.margins = [top |-> 1, bottom |-> 1, left |-> 1, right |-> 1]]
        d1 == add_watermark(d0, "OFFICIAL DOCUMENT")
        d2 == add_university_logo_placeholder(d1, university_data.name)
        d3 == create_document_header(d2, university_data)
        d4 == create_document_title(d3, template_data.title)
        composing == <<"lookup_profile", "lookup_template", "compose">>
    IN  IF FirstMissing(student_data) # ""
        THEN Raised("KeyError", FirstMissing(student_data), composing)
        ELSE
        LET formatted_name == FormattedName(student_data["student_name"])
            body == Format(template_data.template,
                        [ student_name   |-> formatted_name,
                          roll_number    |-> student_data["roll_number"],
                          course         |-> student_data["course"],
                          department     |-> student_data["department"],
                          admission_date |-> student_data["admission_date"],
                          purpose        |-> student_data["purpose"] ])
        IN  IF body.exc # "none" THEN Raised(body.exc, body.text, composing)
            ELSE
            LET d5 == create_document_body(d4, body.text, student_data)
                d6 == create_document_footer(d5, university_data, student_data, t)
                d7 == add_document_metadata(d6, student_data, document_type, t)
            IN  [ exc |-> "none", detail |-> "", doc |-> d7,
                  filename |-> generate_unique_filename(document_type,
                                   student_data["student_name"], student_data["purpose"],
                                   t, uuid4),
                  stages |-> Append(composing, "filename") ]

-----------------------------------------------------------------------------
(* The content store: the directory "generated" of the working directory *)

OutputDir == "generated"

\* os.path.join(a, b)
PathJoin(a, b) == IF StartsWith(b, "/") THEN b ELSE a \o "/" \o b

\* os.path.exists(path)
PathExists(fs, exists, path) ==
    \/ path \in DOMAIN fs
    \/ exists /\ path \in {OutputDir, OutputDir \o "/.", OutputDir \o "/.."}

\* os.listdir(dir): the names of the files directly inside dir
ListDir(fs, dir) ==
    { Drop(p, Len(dir) + 1) :
        p \in {q \in DOMAIN fs : /\ StartsWith(q, dir \o "/")
                                 /\ ~Contains(Drop(q, Len(dir) + 1), "/")} }

\* The size of a document on disk, in parts: its paragraphs and its
\* properties part.  A file holds the parts written so far.
DocParts(doc) == Len(doc.paragraphs) + 1

StSize(file) == file.written

\* What the operating system lets doc.save(path) do
IoOutcomes == {"ok", "open_error", "write_error_empty", "write_error_partial"}

\* The map fs with path bound to file
WithFile(fs, path, file) ==
    [p \in DOMAIN fs \cup {path} |-> IF p = path THEN file ELSE fs[p]]

\* Mutant of WithoutFile: every file of the directory of path goes with it
WithoutFile_directory(fs, path) ==
    [p \in {q \in DOMAIN fs : ~StartsWith(q, Slice(path, Find(path, "/")))} |-> fs[p]]

\* The map fs without path
WithoutFile(fs, path) == [p \in DOMAIN fs \ {path} |-> fs[p]]

\* open(path, "wb"): the file is created, or truncated if it exists
OpenForWriting(fs, doc, path, t) ==
    WithFile(fs, path, [doc |-> doc, written |-> 0, ctime |-> t])

\* The first n parts of doc written to the open file
WriteParts(fs, doc, path, n, t) ==
    WithFile(fs, path, [doc |-> doc, written |-> n, ctime |-> t])

\* doc.save(path): opens path for writing, then writes the package.  An
\* error raised after the open leaves what was written until then.
DocSave(fs, doc, path, t, io) ==
    CASE io = "open_error" -> [exc |-> "OSError", files |-> fs]
      [] io = "write_error_empty" ->
            [exc |-> "OSError", files |-> OpenForWriting(fs, doc, path, t)]
      [] io = "write_error_partial" ->
            [exc |-> "OSError",
             files |-> WriteParts(OpenForWriting(fs, doc, path, t), doc, path, 1, t)]
      [] OTHER ->
            [exc |-> "none",
             files |-> WriteParts(OpenForWriting(fs, doc, path, t), doc, path,
                           DocParts(doc), t)]

\* Mutant of save_document: the filename is not joined to the directory
save_document_unjoined(fs, doc, filename, t, io) ==
    LET saved == DocSave(fs, doc, filename, t, io)
    IN  [exc |-> saved.exc, files |-> saved.files, dirExists |-> TRUE,
         file_path |-> filename]

\* save_document: the directory is created first, then the file is saved
save_document(fs, doc, filename, t, io) ==
    LET file_path == PathJoin(OutputDir, filename)
        saved == DocSave(fs, doc, file_path, t, io)
    IN  [exc |-> saved.exc, files |-> saved.files, dirExists |-> TRUE,
         file_path |-> file_path]

\* generate_and_save: the dictionary it returns, or the exception that
\* leaves it; files and dirExists are the store afterwards
generate_and_save(fs, exists, university_code, document_type, student_data, t, uuid4, io) ==
    LET gen == generate_document(university_code, document_type, student_data, t, uuid4)
        sav == save_document(fs, gen.doc, gen.filename, t, io)
    IN  IF gen.exc # "none"
        THEN [ success |-> FALSE, exc |-> gen.exc, detail |-> gen.detail,
               filename |-> "", file_path |-> "", download_url |-> "",
               doc |-> gen.doc, stages |-> gen.stages,
               files |-> fs, dirExists |-> exists ]
        ELSE IF sav.exc # "none"
        THEN [ success |-> FALSE, exc |-> sav.exc, detail |-> sav.file_path,
               filename |-> "", file_path |-> "", download_url |-> "",
               doc |-> gen.doc, stages |-> Append(gen.stages, "persist"),
               files |-> sav.files, dirExists |-> sav.dirExists ]
        ELSE [ success |-> TRUE, exc |-> "none", detail |-> "",
               filename |-> gen.filename, file_path |-> sav.file_path,
               download_url |-> "/download/" \o gen.filename,
               doc |-> gen.doc, stages |-> Append(gen.stages, "persist"),
               files |-> sav.files, dirExists |-> sav.dirExists ]

-----------------------------------------------------------------------------
(* enhanced_main.py: the handlers, each computed from the store it finds *)

\* The result slot of a request that never called generate_and_save
NoResult ==
    [ success |-> FALSE, exc |-> "none", detail |-> "", filename |-> "",
      file_path |-> "", download_url |-> "", doc |-> NewDocument, stages |-> <<>> ]

\* generate_and_save's outcome without the store it leaves
Outcome(r) ==
    [ success |-> r.success, exc |-> r.exc, detail |-> r.detail, filename |-> r.filename,
      file_path |-> r.file_path, download_url |-> r.download_url, doc |-> r.doc,
      stages |-> r.stages ]

\* The answer to a request that reached generate_and_save: the
\* DocumentResponse built from its result, or status 500 for the exception
\* that left it
Responds(result) ==
    IF result.success
    THEN [ status |-> 200, raised |-> 0, detail |-> "", result |-> Outcome(result),
           files |-> result.files, dirExists |-> result.dirExists ]
    ELSE [ status |-> 500, raised |-> 0,
           detail |-> "Error generating document: " \o result.detail,
           result |-> Outcome(result),
           files |-> result.files, dirExists |-> result.dirExists ]

\* What the handler of POST /generate-document answers.  Every exception
\* raised inside its try block, the HTTPException of the two validations
\* included, reaches "except Exception" and is answered with status 500.
http_generate_document(fs, exists, request, t, uuid4, io) ==
    IF request.university_code \notin DOMAIN universities
    THEN [ status |-> 500, raised |-> 400,
           detail |-> "Error generating document: 400: Invalid university code: "
                          \o request.university_code,
           result |-> NoResult, files |-> fs, dirExists |-> exists ]
    ELSE IF request.document_type \notin DOMAIN document_templates
    THEN [ status |-> 500, raised |-> 400,
           detail |-> "Error generating document: 400: Invalid document type: "
                          \o request.document_type,
           result |-> NoResult, files |-> fs, dirExists |-> exists ]
    ELSE Responds(generate_and_save(fs, exists, request.university_code,
                      request.document_type,
                      [f \in FieldNames |-> request.student_data[f]],
                      t, uuid4, io))

\* GET /download/{filename}
http_download_document(fs, exists, filename) ==
    IF ~PathExists(fs, exists, PathJoin(OutputDir, filename))
    THEN [status |-> 404, detail |-> "Document not found"]
    ELSE [status |-> 200, detail |-> ""]

\* The entry list_documents appends for a name of the directory
DocumentEntry(fs, filename) ==
    [ filename |-> filename,
      size |-> StSize(fs[PathJoin(OutputDir, filename)]),
      created_at |-> IsoFormat(fs[PathJoin(OutputDir, filename)].ctime),
      download_url |-> "/download/" \o filename ]

\* The entries list_documents collects: one per name of the directory that
\* ends with ".docx"
DocumentEntries(fs, exists) ==
    IF ~exists THEN {}
    ELSE { DocumentEntry(fs, f) :
           f \in {g \in ListDir(fs, OutputDir) : EndsWith(g, ".docx")} }

\* documents.sort(key=created_at, reverse=True) of the entries, which
\* os.listdir yields in no particular order: every sequence of all the
\* entries in which no entry comes before one with a greater created_at
SortedListings(entries) ==
    { s \in [1..Cardinality(entries) -> entries] :
        /\ \A i, j \in DOMAIN s : i # j => s[i] # s[j]
        /\ \A i, j \in DOMAIN s : i < j => ~StrLess(s[i].created_at, s[j].created_at) }

\* Mutant of http_delete_document: success is answered, the file is kept
http_delete_document_keeps(fs, exists, filename) ==
    LET file_path == PathJoin(OutputDir, filename)
    IN  IF ~PathExists(fs, exists, file_path)
        THEN [status |-> 404, detail |-> "Document not found", files |-> fs]
        ELSE [status |-> 200, detail |-> "Document " \o filename \o " deleted successfully",
              files |-> fs]

\* DELETE /documents/{filename}
http_delete_document(fs, exists, filename) ==
    LET file_path == PathJoin(OutputDir, filename)
    IN  IF ~PathExists(fs, exists, file_path)
        THEN [status |-> 404, detail |-> "Document not found", files |-> fs]
        ELSE IF file_path \notin DOMAIN fs
        THEN [status |-> 500, detail |-> "Error deleting document", files |-> fs]
        ELSE [status |-> 200, detail |-> "Document " \o filename \o " deleted successfully",
              files |-> WithoutFile(fs, file_path)]

-----------------------------------------------------------------------------
(* Inputs *)

John ==
    [ student_name |-> "John Smith", roll_number |-> "CS2024001",
      course |-> "Bachelor of Science (B.Sc.)", department |-> "Computer Science",
      admission_date |-> "2023-08-15", purpose |-> "Internship application" ]

Mary ==
    [ student_name |-> "Mary O/Neil", roll_number |-> "EE2024002",
      course |-> "Bachelor of Engineering (B.E.)", department |-> "Electrical Engineering",
      admission_date |-> "2022-09-01", purpose |-> "Study abroad program / visa" ]

Blank ==
    [ student_name |-> "", roll_number |-> "", course |-> "", department |-> "",
      admission_date |-> "", purpose |-> "" ]

\* A student whose fields hold the text of placeholders
Braces ==
    [ student_name |-> "{purpose}", roll_number |-> "R1", course |-> "{course}",
      department |-> "D", admission_date |-> "{student_name}", purpose |-> "{roll_number}" ]

FieldSet == FieldNames

Without(student_data, field) ==
    [f \in (DOMAIN student_data) \ {field} |-> student_data[f]]

CompleteStudents == {John, Mary, Blank, Braces}

IncompleteStudents == {Without(John, f) : f \in FieldSet}

UniversityCodes == (DOMAIN universities) \cup {"oxford"}

DocumentTypes == (DOMAIN document_templates) \cup {"diploma"}

UuidA == "3f2b8c1e-9a4d-4c6b-8f01-2d3e4f5a6b7c"
UuidC == "a81d04f7-5b6e-4d21-9c3a-0f1e2d3c4b5a"

CallInput(u, d, sd, uuid4, io) ==
    [university_code |-> u, document_type |-> d, student_data |-> sd,
     uuid4 |-> uuid4, io |-> io]

\* The direct calls of generate_and_save, each with the uuid4 it would draw
\* and with what the operating system would do to its write: every pair of
\* codes, every uuid4 and every outcome of the write, every student
CallInputs ==
    {CallInput(u, d, John, UuidC, "ok") : u \in UniversityCodes, d \in DocumentTypes}
        \cup {CallInput("harvard", "bonafide", John, uuid4, io) :
                 uuid4 \in Uuid4, io \in IoOutcomes}
        \cup {CallInput(c[1], c[2], sd, UuidC, io) :
                 c \in {<<"harvard", "bonafide">>, <<"mit", "noc">>},
                 sd \in CompleteStudents, io \in {"ok", "write_error_partial"}}
        \cup {CallInput(c[1], c[2], sd, UuidC, "ok") :
                 c \in {<<"harvard", "bonafide">>, <<"mit", "noc">>},
                 sd \in IncompleteStudents}

\* The body of a POST /generate-document: pydantic has checked that every
\* field of StudentData but email and phone is a string
Payload(student_data) ==
    student_data @@ [year_of_study |-> "2nd Year", email |-> "", phone |-> ""]

Request(u, d, sd) ==
    [university_code |-> u, document_type |-> d, student_data |-> Payload(sd)]

RequestInputs ==
    {[request |-> Request("harvard", "bonafide", John), uuid4 |-> uuid4, io |-> io] :
        uuid4 \in Uuid4, io \in {"ok", "write_error_partial"}}
        \cup {[request |-> Request(c[1], c[2], c[3]), uuid4 |-> UuidC, io |-> "ok"] :
                 c \in {<<"harvard", "bonafide", Blank>>, <<"oxford", "bonafide", John>>,
                        <<"harvard", "diploma", John>>, <<"oxford", "diploma", John>>}}

EmptyFiles == [p \in {} |-> 0]

\* Filenames a client asks to download or delete: those in the directory,
\* the one its last request named or was answered with, one that never
\* existed and the parent directory
FilenameArgs(fs, seen) ==
    ListDir(fs, OutputDir) \cup {"missing.docx", ".."}
        \cup ({seen.filename, seen.result.filename} \ {""})

\* All strings over the characters chars of length at most n
RECURSIVE StringsUpTo(_, _)
StringsUpTo(chars, n) ==
    IF n = 0 THEN {""}
    ELSE LET shorter == StringsUpTo(chars, n - 1)
         IN  shorter \cup {s \o c : s \in shorter, c \in chars}

\* Student names: letters, space, slash, backslash, tab, newline and dot
NameChars == {"a", " ", "/", "\\", "\t", "\n", "."}

Names == StringsUpTo(NameChars, MaxNameLen)

\* Purposes: a run of letters followed by a tail, so that the tail falls
\* before, across and after the position where the purpose is cut
Purposes ==
    { Rep("p", k) \o tail :
        k \in {0} \cup ((PurposeLimit - MaxTailLen)..PurposeLimit),
        tail \in StringsUpTo({"b", " ", "/", "\t"}, MaxTailLen) }

\* The arguments of generate_unique_filename: every name with two purposes,
\* every purpose with two names
FilenameInputs ==
    (Names \X {"Internship application", ""})
        \cup ({"John Smith", ""} \X Purposes)

-----------------------------------------------------------------------------
(* State *)

Workers == 1..MaxWorkers

\* The thread of a supervisor: where it is, and the role, the process and
\* the result of the start_backend or start_frontend it is in or was last in
NoThread == [pc |-> "off", role |-> "", process |-> 0, ok |-> TRUE]

\* No supervisor runs: the server was started by hand
NoSupervisor ==
    [ running |-> FALSE, processes |-> <<>>, children |-> <<>>, signalled |-> FALSE,
      main |-> NoThread, monitor |-> NoThread, i |-> 0, after |-> "" ]

NoCall ==
    [ op |-> "none", university_code |-> "", document_type |-> "",
      student_data |-> Blank, filename |-> "", uuid4 |-> "", io |-> "none",
      t |-> 0, result |-> NoResult, status |-> 0, raised |-> 0, documents |-> <<>>,
      errors |-> <<>> ]

NoLocals ==
    [ student_data |-> Blank, uuid4 |-> "", t |-> 0, doc |-> NewDocument,
      filename |-> "", file_path |-> "", exc |-> "none" ]

\* uuid.uuid4() is called when the filename is generated, doc.save() when
\* the document is persisted: what a call drew and met, if it got there
Drawn(stages, uuid4) ==
    IF \E i \in DOMAIN stages : stages[i] = "filename" THEN uuid4 ELSE ""

Met(stages, io) ==
    IF \E i \in DOMAIN stages : stages[i] = "persist" THEN io ELSE "none"

\* The store a new process finds: the directory is absent, or is there and
\* empty, or holds a document an earlier run of the program saved
EarlierRun ==
    generate_and_save(EmptyFiles, FALSE, "harvard", "bonafide", John, StartClock - 1,
        UuidA, "ok")

Stores ==
    { [files |-> EmptyFiles, dirExists |-> FALSE],
      [files |-> EmptyFiles, dirExists |-> TRUE],
      [files |-> EarlierRun.files, dirExists |-> TRUE] }

Init ==
    /\ \E st \in Stores :
          /\ files = st.files
          /\ dirExists = st.dirExists
    /\ now = StartClock
    /\ last = NoCall
    /\ nops = 0
    /\ pc = [w \in Workers |-> "idle"]
    /\ loc = [w \in Workers |-> NoLocals]
    /\ sup = NoSupervisor

\* A second passes
Tick ==
    /\ now < StartClock + MaxTicks
    /\ now' = now + 1
    /\ UNCHANGED <<files, dirExists, last, nops, pc, loc, sup>>

-----------------------------------------------------------------------------
(* The generator called directly, one call at a time *)

\* The call c has returned or raised r
Returns(c, r) ==
    /\ files' = r.files
    /\ dirExists' = r.dirExists
    /\ last' = [NoCall EXCEPT !.op = "generate_and_save",
                              !.university_code = c.university_code,
                              !.document_type = c.document_type,
                              !.student_data = c.student_data,
                              !.uuid4 = Drawn(r.stages, c.uuid4),
                              !.io = Met(r.stages, c.io),
                              !.t = now,
                              !.result = Outcome(r)]

CallGenerateAndSave ==
    /\ nops < MaxCalls
    /\ \E c \in CallInputs :
          Returns(c, generate_and_save(files, dirExists, c.university_code,
                        c.document_type, c.student_data, now, c.uuid4, c.io))
    /\ nops' = nops + 1
    /\ UNCHANGED <<now, pc, loc, sup>>

NextCore == CallGenerateAndSave

SpecCore == Init /\ [][NextCore]_vars

-----------------------------------------------------------------------------
(* generate_unique_filename called on its own: the arguments are drawn,    *)
(* then the function is applied to them                                    *)

InitFilename ==
    /\ files = EmptyFiles
    /\ dirExists = FALSE
    /\ now \in Clock
    /\ \E d \in DOMAIN document_templates, np \in FilenameInputs, uuid4 \in Uuid4 :
          last = [NoCall EXCEPT !.op = "pending",
                                !.document_type = d,
                                !.student_data = [Blank EXCEPT !.student_name = np[1],
                                                               !.purpose = np[2]],
                                !.uuid4 = uuid4]
    /\ nops = 0
    /\ pc = [w \in Workers |-> "idle"]
    /\ loc = [w \in Workers |-> NoLocals]
    /\ sup = NoSupervisor

GenerateUniqueFilename ==
    /\ last.op = "pending"
    /\ last' = [last EXCEPT !.op = "generate_unique_filename",
                            !.t = now,
                            !.filename =
                                generate_unique_filename(last.document_type,
                                    last.student_data.student_name,
                                    last.student_data.purpose, now, last.uuid4)]
    /\ UNCHANGED <<files, dirExists, now, nops, pc, loc, sup>>

NextFilename == GenerateUniqueFilename

SpecFilename == InitFilename /\ [][NextFilename]_vars

-----------------------------------------------------------------------------
(* The server: uvicorn runs the handlers one at a time on its event loop   *)
(* (each is an async def that never awaits)                                *)

\* The request in has been answered with r
Answers(in, r) ==
    /\ files' = r.files
    /\ dirExists' = r.dirExists
    /\ last' = [NoCall EXCEPT !.op = "generate_document",
                              !.university_code = in.request.university_code,
                              !.document_type = in.request.document_type,
                              !.student_data = in.request.student_data,
                              !.uuid4 = Drawn(r.result.stages, in.uuid4),
                              !.io = Met(r.result.stages, in.io),
                              !.t = now,
                              !.result = r.result,
                              !.status = r.status,
                              !.raised = r.raised]

GenerateDocument ==
    /\ nops < MaxOps
    /\ \E in \in RequestInputs :
          Answers(in, http_generate_document(files, dirExists, in.request, now,
                         in.uuid4, in.io))
    /\ nops' = nops + 1
    /\ UNCHANGED <<now, pc, loc, sup>>

DownloadDocument ==
    /\ nops < MaxOps
    /\ \E filename \in FilenameArgs(files, last) :
          LET r == http_download_document(files, dirExists, filename)
          IN  last' = [NoCall EXCEPT !.op = "download_document",
                                     !.filename = filename,
                                     !.t = now,
                                     !.status = r.status]
    /\ nops' = nops + 1
    /\ UNCHANGED <<files, dirExists, now, pc, loc, sup>>

ListDocuments ==
    /\ nops < MaxOps
    /\ \E documents \in SortedListings(DocumentEntries(files, dirExists)) :
          last' = [NoCall EXCEPT !.op = "list_documents",
                                 !.t = now,
                                 !.status = 200,
                                 !.documents = documents]
    /\ nops' = nops + 1
    /\ UNCHANGED <<files, dirExists, now, pc, loc, sup>>

DeleteDocument ==
    /\ nops < MaxOps
    /\ \E filename \in FilenameArgs(files, last) :
          LET r == http_delete_document(files, dirExists, filename)
          IN  /\ files' = r.files
              /\ last' = [NoCall EXCEPT !.op = "delete_document",
                                        !.filename = filename,
                                        !.t = now,
                                        !.status = r.status]
    /\ nops' = nops + 1
    /\ UNCHANGED <<dirExists, now, pc, loc, sup>>

Next ==
    \/ GenerateDocument
    \/ DownloadDocument
    \/ ListDocuments
    \/ DeleteDocument
    \/ Tick

Spec == Init /\ [][Next]_vars

-----------------------------------------------------------------------------
(* POST /validate-request next to POST /generate-document: single requests  *)
(* over student data that break the business rules                          *)

Whitespace == {" ", "\t", "\n", "\r"}

\* s.strip()
Strip(s) ==
    LET kept == {i \in 1..Len(s) : CharAt(s, i) \notin Whitespace}
    IN  IF kept = {} THEN ""
        ELSE SubSeq(s, CHOOSE i \in kept : \A j \in kept : i <= j,
                       CHOOSE i \in kept : \A j \in kept : i >= j)

\* errors.append(message) if the rule is broken
AppendIf(errors, broken, message) == IF broken THEN Append(errors, message) ELSE errors

\* validate_document_request: the errors it collects, in its order
validate_document_request(request) ==
    LET sd == request.student_data
        e1 == AppendIf(<<>>, request.university_code \notin DOMAIN universities,
                  "Invalid university code: " \o request.university_code)
        e2 == AppendIf(e1, request.document_type \notin DOMAIN document_templates,
                  "Invalid document type: " \o request.document_type)
        e3 == AppendIf(e2, Strip(sd.student_name) = "", "Student name is required")
        e4 == AppendIf(e3, Strip(sd.roll_number) = "", "Roll number is required")
        e5 == AppendIf(e4, sd.course = "", "Course is required")
        e6 == AppendIf(e5, sd.department = "", "Department is required")
        e7 == AppendIf(e6, sd.admission_date = "", "Admission date is required")
        e8 == AppendIf(e7, Strip(sd.purpose) = "", "Purpose is required")
        e9 == AppendIf(e8, sd.email # "" /\ ~Contains(sd.email, "@"),
                  "Invalid email format")
    IN  [valid |-> Len(e9) = 0, errors |-> e9]

\* John with one field changed
JohnWith(field, value) == [Payload(John) EXCEPT ![field] = value]

\* Student data that breaks one rule each, and student data that breaks none
RuleBreakers ==
    {JohnWith(f, "") : f \in FieldSet}
        \cup {JohnWith("student_name", " \t"), JohnWith("purpose", " "),
              JohnWith("email", "john.smith.university.edu")}

RuleKeepers == {Payload(John), JohnWith("email", "john.smith@university.edu")}

ValidationRequests ==
    {[university_code |-> u, document_type |-> "bonafide", student_data |-> sd] :
        u \in {"harvard", "oxford"}, sd \in RuleBreakers \cup RuleKeepers}

PostGenerateDocument ==
    /\ nops < MaxCalls
    /\ \E request \in ValidationRequests :
          Answers([request |-> request, uuid4 |-> UuidC, io |-> "ok"],
                  http_generate_document(files, dirExists, request, now, UuidC, "ok"))
    /\ nops' = nops + 1
    /\ UNCHANGED <<now, pc, loc, sup>>

PostValidateRequest ==
    /\ nops < MaxCalls
    /\ \E request \in ValidationRequests :
          last' = [NoCall EXCEPT !.op = "validate_document_request",
                                 !.university_code = request.university_code,
                                 !.document_type = request.document_type,
                                 !.student_data = request.student_data,
                                 !.t = now,
                                 !.status = 200,
                                 !.errors = validate_document_request(request).errors]
    /\ nops' = nops + 1
    /\ UNCHANGED <<files, dirExists, now, pc, loc, sup>>

NextRequest == PostGenerateDocument \/ PostValidateRequest

SpecRequest == Init /\ [][NextRequest]_vars

-----------------------------------------------------------------------------
(* generate_and_save called by several workers at once with the same       *)
(* university and document type: each call is a sequence of steps, and the  *)
(* steps of different calls interleave                                      *)

\* uuid4 values in use by the calls under way
InUse == {loc[w].uuid4 : w \in {v \in Workers : pc[v] # "idle"}}

\* generate_document, then save_document up to the open inside doc.save:
\* the document is composed, its filename generated, the directory made and
\* the file created or truncated.  Until the open the call touches nothing
\* the other calls can see.
Opens(w, uuid4, gen) ==
    /\ loc' = [loc EXCEPT ![w] =
                  [ student_data |-> John, uuid4 |-> uuid4, t |-> now,
                    doc |-> gen.doc, filename |-> gen.filename,
                    file_path |-> PathJoin(OutputDir, gen.filename), exc |-> gen.exc ]]
    /\ files' = OpenForWriting(files, gen.doc, PathJoin(OutputDir, gen.filename), now)

ComposeAndOpen(w) ==
    /\ pc[w] = "idle"
    /\ \E uuid4 \in Uuid4 \ InUse :
          Opens(w, uuid4, generate_document("harvard", "bonafide", John, now, uuid4))
    /\ dirExists' = TRUE
    /\ pc' = [pc EXCEPT ![w] = "opened"]
    /\ UNCHANGED <<now, last, nops, sup>>

\* the rest of doc.save, and the return of generate_and_save
Write(w) ==
    /\ pc[w] = "opened"
    /\ \E io \in {"ok", "write_error_partial"} :
          IF io = "ok"
          THEN /\ files' = WriteParts(files, loc[w].doc, loc[w].file_path,
                               DocParts(loc[w].doc), now)
               /\ pc' = [pc EXCEPT ![w] = "returned"]
               /\ loc' = loc
          ELSE /\ files' = WriteParts(files, loc[w].doc, loc[w].file_path, 1, now)
               /\ pc' = [pc EXCEPT ![w] = "raised"]
               /\ loc' = [loc EXCEPT ![w].exc = "OSError"]
    /\ UNCHANGED <<dirExists, now, last, nops, sup>>

NextConc ==
    \/ \E w \in Workers : ComposeAndOpen(w)
    \/ \E w \in Workers : Write(w)
    \/ Tick

SpecConc == Init /\ [][NextConc]_vars

-----------------------------------------------------------------------------
(* GET /documents and DELETE /documents/{filename} step by step.  Inside    *)
(* one server process a handler runs to its end before the next starts;    *)
(* here each worker is a server process of its own on the same directory,  *)
(* so that the system calls of their handlers interleave.                  *)

NoRequest ==
    [ op |-> "none", filename |-> "", pending |-> {}, documents |-> {},
      answer |-> <<>>, status |-> 0 ]

\* The directory with the documents of two earlier runs
TwoRuns ==
    generate_and_save(EarlierRun.files, TRUE, "mit", "noc", Mary, StartClock, UuidC, "ok")

RaceStores == Stores \cup {[files |-> TwoRuns.files, dirExists |-> TRUE]}

InitRace ==
    /\ \E st \in RaceStores :
          /\ files = st.files
          /\ dirExists = st.dirExists
    /\ now = StartClock
    /\ last = NoCall
    /\ nops = 0
    /\ pc = [w \in Workers |-> "idle"]
    /\ loc = [w \in Workers |-> NoRequest]
    /\ sup = NoSupervisor

\* list_documents up to os.listdir: without the directory the empty list is
\* returned, else the names of the directory are read
OsListdir(w) ==
    /\ pc[w] = "idle"
    /\ IF ~PathExists(files, dirExists, OutputDir)
       THEN /\ pc' = [pc EXCEPT ![w] = "answered"]
            /\ loc' = [loc EXCEPT ![w] = [NoRequest EXCEPT !.op = "list_documents",
                                                           !.status = 200]]
       ELSE /\ pc' = [pc EXCEPT ![w] = "listing"]
            /\ loc' = [loc EXCEPT ![w] =
                          [NoRequest EXCEPT !.op = "list_documents",
                                            !.pending = ListDir(files, OutputDir)]]
    /\ UNCHANGED <<files, dirExists, now, last, nops, sup>>

\* One turn of the loop over the names: os.stat of the next name that ends
\* with ".docx".  FileNotFoundError reaches "except Exception": status 500.
OsStat(w) ==
    /\ pc[w] = "listing"
    /\ \E filename \in loc[w].pending :
          LET file_path == PathJoin(OutputDir, filename)
          IN  IF ~EndsWith(filename, ".docx")
              THEN /\ loc' = [loc EXCEPT ![w].pending = @ \ {filename}]
                   /\ pc' = pc
              ELSE IF file_path \notin DOMAIN files
              THEN /\ loc' = [loc EXCEPT ![w].pending = {}, ![w].documents = {},
                                         ![w].status = 500]
                   /\ pc' = [pc EXCEPT ![w] = "answered"]
              ELSE /\ loc' = [loc EXCEPT
                              ![w].pending = @ \ {filename},
                              ![w].documents = @ \cup
                                  {DocumentEntry(files, filename)}]
                   /\ pc' = pc
    /\ UNCHANGED <<files, dirExists, now, last, nops, sup>>

\* The loop is over: the documents are sorted and returned
SortAndReturn(w) ==
    /\ pc[w] = "listing"
    /\ loc[w].pending = {}
    /\ \E documents \in SortedListings(loc[w].documents) :
          loc' = [loc EXCEPT ![w].answer = documents, ![w].status = 200]
    /\ pc' = [pc EXCEPT ![w] = "answered"]
    /\ UNCHANGED <<files, dirExists, now, last, nops, sup>>

\* delete_document up to os.path.exists
OsPathExists(w) ==
    /\ pc[w] = "idle"
    /\ \E filename \in ListDir(files, OutputDir) \cup {"missing.docx"} :
          IF ~PathExists(files, dirExists, PathJoin(OutputDir, filename))
          THEN /\ pc' = [pc EXCEPT ![w] = "answered"]
               /\ loc' = [loc EXCEPT ![w] = [NoRequest EXCEPT !.op = "delete_document",
                                                              !.filename = filename,
                                                              !.status = 404]]
          ELSE /\ pc' = [pc EXCEPT ![w] = "removing"]
               /\ loc' = [loc EXCEPT ![w] = [NoRequest EXCEPT !.op = "delete_document",
                                                              !.filename = filename]]
    /\ UNCHANGED <<files, dirExists, now, last, nops, sup>>

\* os.remove and the answer.  FileNotFoundError reaches "except Exception":
\* status 500.
OsRemove(w) ==
    /\ pc[w] = "removing"
    /\ LET file_path == PathJoin(OutputDir, loc[w].filename)
       IN  IF file_path \notin DOMAIN files
           THEN /\ files' = files
                /\ loc' = [loc EXCEPT ![w].status = 500]
           ELSE /\ files' = WithoutFile(files, file_path)
                /\ loc' = [loc EXCEPT ![w].status = 200]
    /\ pc' = [pc EXCEPT ![w] = "answered"]
    /\ UNCHANGED <<dirExists, now, last, nops, sup>>

NextRace ==
    \/ \E w \in Workers : OsListdir(w)
    \/ \E w \in Workers : OsStat(w)
    \/ \E w \in Workers : SortAndReturn(w)
    \/ \E w \in Workers : OsPathExists(w)
    \/ \E w \in Workers : OsRemove(w)

SpecRace == InitRace /\ [][NextRace]_vars

-----------------------------------------------------------------------------
(* The supervisor: SystemStarter of start_system.py.  Its main thread runs  *)
(* run(), its daemon thread monitor_processes(); a signal handler runs in   *)
(* the main thread, between two of its bytecodes.  The dependency checks    *)
(* and installations of run() are taken to have succeeded.  A step of the   *)
(* model is what a thread does between two places where the interpreter or  *)
(* a blocking call (sleep, wait, Popen) lets the other thread run.          *)

Roles == {"Backend", "Frontend"}

\* process.poll() is None
IsAlive(children, process) == children[process].state = "alive"

\* The entries of self.processes that track a role
Tracked(processes, role) == {i \in DOMAIN processes : processes[i].name = role}

\* list.pop(i)
Pop(list, i) == [j \in 1..(Len(list) - 1) |-> IF j < i THEN list[j] ELSE list[j + 1]]

\* What the caller of start_backend or start_frontend does with its result.
\* run(): a failed backend returns False, a failed frontend stops all
\* processes and returns False, the started system starts the monitor
\* thread and enters the main loop, which only the signal handler ends
\* (self.running has no other writer).  monitor_processes(): either
\* result is followed by break and the sleep before the next pass
AfterStart(s, th, ok) ==
    IF th = "monitor"
    THEN [s EXCEPT !.monitor.pc = "check", !.monitor.ok = ok]
    ELSE IF s.main.role = "Backend"
         THEN IF ok
              THEN [s EXCEPT !.main.role = "Frontend", !.main.pc = "popen",
                             !.main.ok = TRUE]
              ELSE [s EXCEPT !.main.pc = "returned", !.main.ok = FALSE]
         ELSE IF ok
              THEN [s EXCEPT !.main.pc = "loop", !.main.ok = TRUE,
                             !.monitor.pc = "check"]
              ELSE [s EXCEPT !.main.pc = "stopping", !.main.ok = FALSE,
                             !.i = 1, !.after = "returned"]

\* A thread may run: the interpreter has not exited (run() returned, or
\* sys.exit(0) was reached, which ends the daemon thread too), and the
\* thread was started and has not left its function
Runs(th) ==
    /\ sup.main.pc \notin {"off", "returned", "exited"}
    /\ sup[th].pc \notin {"off", "ended"}

\* start_backend / start_frontend up to subprocess.Popen: the backend's
\* mkdir of the generated directory, then the child is created, or either
\* call raises and except Exception returns False
Popen(th) ==
    /\ Runs(th)
    /\ sup[th].pc = "popen"
    /\ \E outcome \in {"mkdir raises", "Popen raises", "started"} :
          /\ outcome = "mkdir raises" => sup[th].role = "Backend"
          /\ outcome = "started" => Len(sup.children) < MaxChildren
          /\ dirExists' =
                IF sup[th].role = "Backend" /\ outcome # "mkdir raises"
                THEN TRUE ELSE dirExists
          /\ sup' =
                IF outcome = "started"
                THEN [sup EXCEPT
                        !.children = Append(@, [name |-> sup[th].role, state |-> "alive"]),
                        ![th].process = Len(sup.children) + 1,
                        ![th].pc = "append"]
                ELSE AfterStart(sup, th, FALSE)
    /\ UNCHANGED <<files, now, last, nops, pc, loc>>

\* self.processes.append((name, process)), then the sleep
AppendProcess(th) ==
    /\ Runs(th)
    /\ sup[th].pc = "append"
    /\ sup' = [sup EXCEPT
                 !.processes = Append(@, [name |-> sup[th].role,
                                          process |-> sup[th].process]),
                 ![th].pc = "poll"]
    /\ UNCHANGED <<files, dirExists, now, last, nops, pc, loc>>

\* After the sleep: process.poll() is None returns True, else False
Poll(th) ==
    /\ Runs(th)
    /\ sup[th].pc = "poll"
    /\ sup' = AfterStart(sup, th, IsAlive(sup.children, sup[th].process))
    /\ UNCHANGED <<files, dirExists, now, last, nops, pc, loc>>

\* monitor_processes: while self.running
MonitorCheck ==
    /\ Runs("monitor")
    /\ sup.monitor.pc = "check"
    /\ sup' = [sup EXCEPT !.monitor.pc = IF sup.running THEN "scan" ELSE "ended"]
    /\ UNCHANGED <<files, dirExists, now, last, nops, pc, loc>>

\* monitor_processes: the for loop up to the first entry whose process has
\* terminated, which is popped and whose role is started again; without one
\* the loop ends and the thread sleeps
MonitorScan ==
    /\ Runs("monitor")
    /\ sup.monitor.pc = "scan"
    /\ LET dead == {i \in DOMAIN sup.processes :
                      ~IsAlive(sup.children, sup.processes[i].process)}
       IN  IF dead = {}
           THEN sup' = [sup EXCEPT !.monitor.pc = "check"]
           ELSE \E i \in dead :
                  /\ \A j \in dead : i <= j
                  /\ sup' = [sup EXCEPT
                               !.processes = Pop(@, i),
                               !.monitor.role = sup.processes[i].name,
                               !.monitor.pc = "popen"]
    /\ UNCHANGED <<files, dirExists, now, last, nops, pc, loc>>

\* signal_handler, entered in the main thread wherever it is: self.running
\* = False and the call of stop_all_processes, after which sys.exit(0)
\* ends the interpreter and its daemon thread
SignalHandler ==
    /\ sup.main.pc \notin {"off", "returned", "exited"}
    /\ ~sup.signalled
    /\ sup' = [sup EXCEPT !.signalled = TRUE, !.running = FALSE,
                          !.main.pc = "stopping", !.i = 1, !.after = "exited"]
    /\ UNCHANGED <<files, dirExists, now, last, nops, pc, loc>>

\* stop_all_processes: one pass of its for loop over self.processes, which
\* terminates the process that still runs and waits for it; the list
\* iterator ends when its index is past the list as it then is
StopNext ==
    /\ sup.main.pc = "stopping"
    /\ IF sup.i <= Len(sup.processes)
       THEN sup' = [sup EXCEPT
                      !.children[sup.processes[sup.i].process].state =
                          IF @ = "alive" THEN "terminated" ELSE @,
                      !.i = @ + 1]
       ELSE sup' = [sup EXCEPT !.main.pc = "clear"]
    /\ UNCHANGED <<files, dirExists, now, last, nops, pc, loc>>

\* stop_all_processes: self.processes.clear(), and the return to run(),
\* which returns, or to the signal handler, which exits
Clear ==
    /\ sup.main.pc = "clear"
    /\ sup' = [sup EXCEPT !.processes = <<>>, !.main.pc = sup.after]
    /\ UNCHANGED <<files, dirExists, now, last, nops, pc, loc>>

\* A child process ends by itself
ChildExits ==
    /\ sup.main.pc \notin {"off", "returned", "exited"}
    /\ \E c \in DOMAIN sup.children :
          /\ sup.children[c].state = "alive"
          /\ sup' = [sup EXCEPT !.children[c].state = "exited"]
    /\ UNCHANGED <<files, dirExists, now, last, nops, pc, loc>>

\* SystemStarter() and the call of run() up to start_backend
InitSup ==
    /\ \E st \in Stores :
          /\ files = st.files
          /\ dirExists = st.dirExists
    /\ now = StartClock
    /\ last = NoCall
    /\ nops = 0
    /\ pc = [w \in Workers |-> "idle"]
    /\ loc = [w \in Workers |-> NoLocals]
    /\ sup = [NoSupervisor EXCEPT
                !.running = TRUE,
                !.main = [pc |-> "popen", role |-> "Backend", process |-> 0,
                          ok |-> TRUE]]

NextSup ==
    \/ \E th \in {"main", "monitor"} : Popen(th)
    \/ \E th \in {"main", "monitor"} : AppendProcess(th)
    \/ \E th \in {"main", "monitor"} : Poll(th)
    \/ MonitorCheck
    \/ MonitorScan
    \/ SignalHandler
    \/ StopNext
    \/ Clear
    \/ ChildExits

SpecSup == InitSup /\ [][NextSup]_vars

-----------------------------------------------------------------------------
(* Vocabulary of the properties *)

\* The error kinds of the design, by the exception the generator raises
Kind(exc) ==
    CASE exc = "ValueError" -> "NotFound"
      [] exc = "KeyError" -> "RenderError"
      [] exc = "OSError" -> "IOError"
      [] OTHER -> "none"

KnownCodes(call) ==
    /\ call.university_code \in DOMAIN universities
    /\ call.document_type \in DOMAIN document_templates

Complete(student_data) == FieldSet \subseteq DOMAIN student_data

\* This step is a call or a request
Called == nops' = nops + 1

StageOrder == <<"lookup_profile", "lookup_template", "compose", "filename", "persist">>

IsPrefix(s, full) == Len(s) <= Len(full) /\ \A i \in DOMAIN s : s[i] = full[i]

\* The filenames a listing shows
ListedNames(documents) == {documents[i].filename : i \in DOMAIN documents}

-----------------------------------------------------------------------------
(* C1 *)

\* C1: a call of generate_and_save with a known university code, a known
\* document type and a student record that has all six fields, whose write
\* the operating system does not fail, returns success, and right after it
\* the directory holds a non-empty file under exactly the returned filename.
C1_CompleteCallIsSaved ==
    ( /\ last.op = "generate_and_save"
      /\ KnownCodes(last)
      /\ Complete(last.student_data)
      /\ last.io \in {"none", "ok"} )
    => /\ last.result.success
       /\ last.result.filename # ""
       /\ last.result.filename \in ListDir(files, OutputDir)
       /\ last.result.file_path = PathJoin(OutputDir, last.result.filename)
       /\ last.result.file_path \in DOMAIN files
       /\ StSize(files[last.result.file_path]) > 0
       /\ dirExists

\* A student whose name holds a slash has been saved next to a document of
\* an earlier run.
C1_Witness ==
    /\ last.op = "generate_and_save"
    /\ last.student_data = Mary
    /\ last.university_code = "mit"
    /\ last.result.success
    /\ Cardinality(DOMAIN files) = 2
    /\ StSize(files[last.result.file_path]) > 0

-----------------------------------------------------------------------------
(* C2 *)

\* C2: a call of generate_and_save with a university code that is not in
\* the profile table, or a document type that is not in the template table,
\* fails with the NotFound error and leaves the store as it was: the same
\* files, no directory made.
C2_UnknownCodeIsNotFound ==
    [][ ( /\ Called
          /\ last'.op = "generate_and_save"
          /\ ~KnownCodes(last') )
        => /\ ~last'.result.success
           /\ Kind(last'.result.exc) = "NotFound"
           /\ files' = files
           /\ dirExists' = dirExists ]_vars

\* An unknown university code has been refused while the store held a file.
C2_Witness ==
    /\ last.op = "generate_and_save"
    /\ last.university_code = "oxford"
    /\ last.document_type = "bonafide"
    /\ last.result.exc = "ValueError"
    /\ DOMAIN files # {}

-----------------------------------------------------------------------------
(* C3 *)

\* C3: generate_and_save runs its stages in the order lookup profile, lookup
\* template, compose, generate filename, persist; a successful call runs
\* them all, a failed call stops at the stage that failed, and after a
\* failed call the store holds what it held before: no new file, no partial
\* file.
C3_FailureLeavesNoArtifact ==
    [][ ( Called /\ last'.op = "generate_and_save" )
        => /\ IsPrefix(last'.result.stages, StageOrder)
           /\ last'.result.success => last'.result.stages = StageOrder
           /\ Kind(last'.result.exc) = "NotFound" => Len(last'.result.stages) <= 2
           /\ Kind(last'.result.exc) = "RenderError" => Len(last'.result.stages) = 3
           /\ ~last'.result.success => files' = files ]_vars

-----------------------------------------------------------------------------
(* C4 *)

\* The calls that have returned
ReturnedCalls == {w \in Workers : pc[w] = "returned"}

\* The calls under way or over
StartedCalls == {w \in Workers : pc[w] # "idle"}

\* C4 as claimed: concurrent calls of generate_and_save with identical
\* inputs return pairwise distinct filenames, and once they have returned
\* the store holds one complete file for each of them.
C4_DistinctFilenames ==
    /\ \A v, w \in ReturnedCalls : v # w => loc[v].filename # loc[w].filename
    /\ \A w \in ReturnedCalls :
          ReturnedCalls = Workers =>
             /\ loc[w].file_path \in DOMAIN files
             /\ StSize(files[loc[w].file_path]) = DocParts(loc[w].doc)

\* C4, amended: two concurrent calls with identical inputs get the same
\* filename exactly when they run in the same second and their uuid4 values
\* agree on the first eight characters; a call that returned and shares its
\* filename with no other call has left its own complete file in the store.
C4_DistinctUnlessSameSecondAndId ==
    /\ \A v, w \in StartedCalls :
          (loc[v].filename = loc[w].filename)
             <=> ( /\ loc[v].t = loc[w].t
                   /\ \A i \in 1..8 : CharAt(loc[v].uuid4, i) = CharAt(loc[w].uuid4, i) )
    /\ \A w \in ReturnedCalls :
          (\A v \in StartedCalls \ {w} : loc[v].filename # loc[w].filename)
             => /\ loc[w].file_path \in DOMAIN files
                /\ files[loc[w].file_path].doc = loc[w].doc
                /\ StSize(files[loc[w].file_path]) = DocParts(loc[w].doc)

\* Two calls of the same second have returned with different filenames and
\* both files are in the store.
C4_Witness ==
    /\ ReturnedCalls = Workers
    /\ \A v, w \in Workers : loc[v].t = loc[w].t
    /\ \A v, w \in Workers : v # w => loc[v].filename # loc[w].filename
    /\ \A w \in Workers : loc[w].file_path \in DOMAIN files

-----------------------------------------------------------------------------
(* C5 *)

\* C5: the listing that follows a successful generation shows the returned
\* filename; the listing that follows a successful delete of a filename
\* does not show it; and the delete of a filename that follows its
\* successful delete is answered NotFound (404).
C5_RoundTrip ==
    [][ /\ ( /\ last.op = "generate_document" /\ last.result.success
             /\ Called /\ last'.op = "list_documents" )
           => last.result.filename \in ListedNames(last'.documents)
        /\ ( /\ last.op = "delete_document" /\ last.status = 200
             /\ Called /\ last'.op = "list_documents" )
           => last.filename \notin ListedNames(last'.documents)
        /\ ( /\ last.op = "delete_document" /\ last.status = 200
             /\ Called /\ last'.op = "delete_document"
             /\ last'.filename = last.filename )
           => last'.status = 404 ]_vars

\* A document generated by this server has been deleted, and its second
\* delete has been answered 404.
C5_Witness ==
    /\ last.op = "delete_document"
    /\ last.status = 404
    /\ nops = 3
    /\ StartsWith(last.filename, "bonafide_John_Smith")
    /\ last.filename \notin ListDir(EarlierRun.files, OutputDir)

-----------------------------------------------------------------------------
(* C6, C7, C8: the filename, over all names and purposes *)

\* generate_unique_filename has been applied to the arguments drawn
Applied == last.op = "generate_unique_filename"

CharsOf(s) == {CharAt(s, i) : i \in 1..Len(s)}

\* C6: whatever spaces and slashes the student name and the purpose
\* contain, the filename generate_unique_filename returns contains no space
\* and no '/'.
C6_NoSpaceNoSlash ==
    Applied => CharsOf(last.filename) \cap {" ", "/"} = {}

\* A name with a space and a slash has been turned into a filename.
C6_Witness ==
    /\ Applied
    /\ last.student_data.student_name = " /"
    /\ last.student_data.purpose = "Internship application"
    /\ last.filename # ""

\* C7: generate_unique_filename replaces every whitespace character (tab
\* and newline included) and every path separator (backslash included) of
\* the name and the purpose by an underscore: the filename contains none of
\* them.
C7_NoWhitespaceNoSeparator ==
    Applied => CharsOf(last.filename) \cap {" ", "\t", "\n", "/", "\\"} = {}

\* The character the pattern of the filename puts for c
Underscored(c) == IF c \in {" ", "/"} THEN "_" ELSE c

DigitChars == CharsOf("0123456789")

\* C8: for every document type, name and purpose, the empty ones included,
\* generate_unique_filename returns the document type, the name with each
\* space and slash turned into an underscore, the first 20 characters of
\* the purpose so treated, the time as YYYYMMDD_HHMMSS and the first 8
\* characters of the uuid4, joined by underscores and followed by ".docx".
C8_FilenamePattern ==
    Applied =>
    LET f == last.filename
        d == last.document_type
        n == last.student_data.student_name
        p == last.student_data.purpose
        k == IF Len(p) < 20 THEN Len(p) ELSE 20
        a == Len(d) + 1
        b == a + Len(n) + 1
        c == b + k + 1
        e == c + 15 + 1
        hh == (Local(last.t) \div 3600) % 24
        mm == (Local(last.t) \div 60) % 60
        ss == Local(last.t) % 60
    IN  /\ Len(f) = e + 8 + 5
        /\ SubSeq(f, 1, Len(d)) = d
        /\ \A i \in {a, b, c, e} : CharAt(f, i) = "_"
        /\ \A i \in 1..Len(n) : CharAt(f, a + i) = Underscored(CharAt(n, i))
        /\ \A i \in 1..k : CharAt(f, b + i) = Underscored(CharAt(p, i))
        /\ k <= 20
        /\ \A i \in (1..15) \ {9} : CharAt(f, c + i) \in DigitChars
        /\ CharAt(f, c + 9) = "_"
        /\ SubSeq(f, c + 1, c + 8) = "20251102"
        /\ \A q \in {<<10, hh>>, <<12, mm>>, <<14, ss>>} :
              /\ CharAt(f, c + q[1]) = CharAt("0123456789", (q[2] \div 10) + 1)
              /\ CharAt(f, c + q[1] + 1) = CharAt("0123456789", (q[2] % 10) + 1)
        /\ SubSeq(f, e + 1, e + 8) = SubSeq(last.uuid4, 1, 8)
        /\ SubSeq(f, e + 9, e + 13) = ".docx"

\* An empty name and a purpose of more than 20 characters with a space
\* right before the cut have been turned into a filename.
C8_Witness ==
    /\ Applied
    /\ last.student_data.student_name = ""
    /\ Len(last.student_data.purpose) > 20
    /\ CharAt(last.student_data.purpose, 20) = " "
    /\ StartsWith(last.filename, "bonafide__ppppppppppppppppppp__2025")

-----------------------------------------------------------------------------
(* C9 *)

Token(field) == "{" \o field \o "}"

\* The positions where sub begins in s
Occurrences(s, sub) ==
    {i \in 1..(Len(s) - Len(sub) + 1) : SubSeq(s, i, i + Len(sub) - 1) = sub}

\* What the body shows for a field
Shown(student_data, field) ==
    IF field = "student_name" THEN "Mr./Ms. " \o student_data[field]
    ELSE student_data[field]

\* The placeholders of a template, each with its position
Slots(template) ==
    UNION {{[at |-> i, field |-> f] : i \in Occurrences(template, Token(f))} :
              f \in FieldSet}

\* By how much the slots lengthen the text when filled
RECURSIVE Growth(_, _)
Growth(slots, student_data) ==
    IF slots = {} THEN 0
    ELSE LET s == CHOOSE x \in slots : TRUE
         IN  Len(Shown(student_data, s.field)) - Len(Token(s.field))
                 + Growth(slots \ {s}, student_data)

\* body is template with each placeholder replaced by the student's field:
\* every character of the template outside the placeholders is in the body,
\* moved by what the placeholders before it grew, every placeholder's place
\* holds the field, and there is nothing else.
Rendering(body, template, student_data) ==
    LET slots == Slots(template)
        Before(i) == {s \in slots : s.at < i}
        moved == [i \in 1..Len(template) |-> i + Growth(Before(i), student_data)]
    IN  /\ Len(body) = Len(template) + Growth(slots, student_data)
        /\ \A i \in 1..Len(template) :
              (\A s \in slots : i < s.at \/ i >= s.at + Len(Token(s.field)))
                 => CharAt(body, moved[i]) = CharAt(template, i)
        /\ \A s \in slots :
              SubSeq(body, moved[s.at],
                     moved[s.at] + Len(Shown(student_data, s.field)) - 1)
                 = Shown(student_data, s.field)

BlockTexts(doc, block) ==
    {doc.paragraphs[i].text : i \in {j \in DOMAIN doc.paragraphs :
                                        doc.paragraphs[j].block = block}}

\* generate_document has returned a document to generate_and_save
Composed ==
    /\ last.op = "generate_and_save"
    /\ Len(last.result.stages) >= 4

\* C9 as claimed: the body of the generated document is the template with
\* the placeholders replaced by the student's fields, the name behind
\* "Mr./Ms. ", under the template's title, and no placeholder token remains
\* in the body.
C9_NoPlaceholderRemains ==
    Composed =>
       /\ BlockTexts(last.result.doc, "title")
             = {document_templates[last.document_type].title}
       /\ \A body \in BlockTexts(last.result.doc, "body") :
             /\ Rendering(body, document_templates[last.document_type].template,
                    last.student_data)
             /\ \A f \in FieldSet : ~Contains(body, Token(f))

\* C9, amended: the body of the generated document is the template with
\* each placeholder replaced by the student's field, the name behind
\* "Mr./Ms. ", under the template's title; a placeholder token is in the
\* body only if a field of the student contains that token.
C9_BodyIsRenderedTemplate ==
    Composed =>
       /\ BlockTexts(last.result.doc, "title")
             = {document_templates[last.document_type].title}
       /\ Cardinality(BlockTexts(last.result.doc, "body")) = 1
       /\ \A body \in BlockTexts(last.result.doc, "body") :
             /\ Rendering(body, document_templates[last.document_type].template,
                    last.student_data)
             /\ \A f \in FieldSet :
                   Contains(body, Token(f))
                      => \E g \in FieldSet : Contains(last.student_data[g], Token(f))
             /\ ( /\ last.university_code = "harvard"
                  /\ last.document_type = "bonafide"
                  /\ last.student_data = John )
                => /\ Contains(body, "Mr./Ms. John Smith")
                   /\ Contains(body, "Roll No: CS2024001")
                   /\ Contains(body, "Internship application")
                   /\ BlockTexts(last.result.doc, "title") = {"BONAFIDE CERTIFICATE"}

\* A student whose name is the text "{purpose}" has got a document: the
\* body shows that text behind the honorific, and it is the file's content.
C9_Witness ==
    /\ Composed
    /\ last.result.success
    /\ last.university_code = "harvard"
    /\ last.document_type = "bonafide"
    /\ last.student_data = Braces
    /\ \E body \in BlockTexts(files[last.result.file_path].doc, "body") :
          /\ Contains(body, "certify that Mr./Ms. {purpose}, Roll No: R1,")
          /\ Contains(body, Token("purpose"))

-----------------------------------------------------------------------------
(* C10 *)

\* C10: the server answers a failure by its kind: an unknown university
\* code or document type on generation, and a missing document on download
\* or delete, with 404; a failed write with 500.  A generation request with
\* an unknown code is never answered 500.
C10_StatusByKind ==
    /\ ( last.op = "generate_document" /\ ~KnownCodes(last) ) => last.status = 404
    /\ ( last.op = "generate_document" /\ Kind(last.result.exc) = "IOError" )
          => last.status = 500
    /\ ( /\ last.op \in {"download_document", "delete_document"}
         /\ last.filename = "missing.docx" )
          => last.status = 404

-----------------------------------------------------------------------------
(* C11 *)

\* The request the last answer was given to
LastRequest ==
    [university_code |-> last.university_code, document_type |-> last.document_type,
     student_data |-> last.student_data]

\* C11: every generation request is validated before composition: a request
\* that breaks a business rule (a required field blank, an email without
\* '@') is rejected as a ValidationError (400) and reaches neither
\* composition nor persistence, so no document is generated for a blank
\* student name or a blank purpose.
C11_ValidatedBeforeComposition ==
    ( /\ last.op = "generate_document"
      /\ KnownCodes(last)
      /\ ~validate_document_request(LastRequest).valid )
    => /\ last.status = 400
       /\ ~last.result.success
       /\ last.result.stages = <<>>

-----------------------------------------------------------------------------
(* C12 *)

\* The requests of an operation that have been answered
Answered(op) == {w \in Workers : pc[w] = "answered" /\ loc[w].op = op}

\* C12: a listing that runs while a delete runs does not fail: when a file
\* is removed after the listing has read the names of the directory and
\* before it stats that file, the listing still returns a result (200),
\* with or without the file.
C12_ListSurvivesDelete ==
    \A w \in Answered("list_documents") : loc[w].status = 200

-----------------------------------------------------------------------------
(* C15 *)

\* C15: every delete ends with success (200) or NotFound (404), also when
\* it races with a delete of the same filename: of two deletes of a file
\* that exists, one is answered 200 and the other 404, and none is answered
\* with an internal error.
C15_DeleteSucceedsOrNotFound ==
    /\ \A w \in Answered("delete_document") : loc[w].status \in {200, 404}
    /\ \A v, w \in Answered("delete_document") :
          ( /\ v # w
            /\ loc[v].filename = loc[w].filename
            /\ loc[v].filename # "missing.docx" )
          => 200 \in {loc[v].status, loc[w].status}

-----------------------------------------------------------------------------
(* C13 *)

\* This step is a step of the call w
StepOf(w) == pc'[w] # pc[w]

\* This step is the one in which the call w creates or truncates its file
OpenStepOf(w) == pc[w] = "idle" /\ pc'[w] = "opened"

SamePrefix(a, b) == SubSeq(a, 1, 8) = SubSeq(b, 1, 8)

-----------------------------------------------------------------------------
(* C14 *)

\* The second at which the listed document was created
CreatedAt(entry) == files[PathJoin(OutputDir, entry.filename)].ctime

\* C14: the listing has one entry, with filename, size and creation time,
\* for every document in the store, the newest first: of two adjacent
\* entries the first was created no earlier than the second; without the
\* directory the listing is empty and no error.
C14_NewestFirst ==
    last.op = "list_documents" =>
       /\ last.status = 200
       /\ ~dirExists => last.documents = <<>>
       /\ Len(last.documents) = Cardinality(ListDir(files, OutputDir))
       /\ ListedNames(last.documents) = ListDir(files, OutputDir)
       /\ \A i \in DOMAIN last.documents :
             /\ last.documents[i].size = StSize(files[PathJoin(OutputDir,
                                                     last.documents[i].filename)])
             /\ last.documents[i].created_at = IsoFormat(CreatedAt(last.documents[i]))
       /\ \A i \in 1..(Len(last.documents) - 1) :
             CreatedAt(last.documents[i]) >= CreatedAt(last.documents[i + 1])

-----------------------------------------------------------------------------
(* C17 *)

\* C17: a delete changes the store only by removing the file its argument
\* names: a successful delete leaves every other file as it was, and a
\* delete answered NotFound leaves the whole store as it was.
C17_DeleteRemovesOnlyItsFile ==
    [][ ( Called /\ last'.op = "delete_document" ) =>
          /\ dirExists' = dirExists
          /\ last'.status = 200 =>
                /\ DOMAIN files' = DOMAIN files \ {PathJoin(OutputDir, last'.filename)}
                /\ PathJoin(OutputDir, last'.filename) \in DOMAIN files
                /\ \A p \in DOMAIN files' : files'[p] = files[p]
          /\ last'.status # 200 => files' = files ]_vars

\* One of two documents has been deleted and the other one is there.
C17_Witness ==
    /\ last.op = "delete_document"
    /\ last.status = 200
    /\ PathJoin(OutputDir, last.filename) \notin DOMAIN files
    /\ DOMAIN files = DOMAIN EarlierRun.files
    /\ last.filename \notin ListDir(EarlierRun.files, OutputDir)

-----------------------------------------------------------------------------
(* C16 *)

\* The blocks of the paragraphs from top to bottom: each run of paragraphs
\* of one block once, the empty spacing paragraphs left out
RECURSIVE BlockOrder(_)
BlockOrder(paragraphs) ==
    IF paragraphs = <<>> THEN <<>>
    ELSE LET above == BlockOrder(SubSeq(paragraphs, 1, Len(paragraphs) - 1))
             block == paragraphs[Len(paragraphs)].block
         IN  IF block = "space" \/ (above # <<>> /\ above[Len(above)] = block)
             THEN above
             ELSE Append(above, block)

\* The texts of the paragraphs of a block, from top to bottom
RECURSIVE TextsOf(_, _)
TextsOf(paragraphs, block) ==
    IF paragraphs = <<>> THEN <<>>
    ELSE LET above == TextsOf(SubSeq(paragraphs, 1, Len(paragraphs) - 1), block)
         IN  IF paragraphs[Len(paragraphs)].block = block
             THEN Append(above, paragraphs[Len(paragraphs)].text)
             ELSE above

Properties(doc) ==
    {doc.core_properties.title, doc.core_properties.subject,
     doc.core_properties.author, doc.core_properties.comments}

\* What every composed document has, whatever the order of its blocks: the
\* four lines of the header, the bracketed logo placeholder, and the
\* metadata in the properties and in no paragraph
BlocksAsSpecified(doc, university) ==
    /\ Len(TextsOf(doc.paragraphs, "header")) = 4
    /\ TextsOf(doc.paragraphs, "header")[2] = "Office of the Registrar"
    /\ TextsOf(doc.paragraphs, "header")[3]
          = university.address \o "\nTel: " \o university.phone
    /\ TextsOf(doc.paragraphs, "header")[4] = Rep("_", 80)
    /\ TextsOf(doc.paragraphs, "logo") = <<"[" \o university.name \o " LOGO]">>
    /\ "" \notin Properties(doc)
    /\ \A i \in DOMAIN doc.paragraphs : doc.paragraphs[i].text \notin Properties(doc)

\* C16 as claimed: the blocks of every composed document are, from top to
\* bottom, the header (university name, 'Office of the Registrar', address
\* and phone, separator rule), the logo placeholder, the title, the body
\* and the footer; the metadata is in the properties, not in the body.
C16_HeaderThenLogo ==
    Composed =>
       /\ BlockOrder(last.result.doc.paragraphs)
             = <<"header", "logo", "title", "body", "footer">>
       /\ BlocksAsSpecified(last.result.doc, universities[last.university_code])

\* C16, amended: the blocks of every composed document are, from top to
\* bottom, the logo placeholder, the header (university name, 'Office of
\* the Registrar', address and phone, separator rule), the title, the body
\* and the footer; the metadata is in the properties, not in the body.
C16_LogoThenHeader ==
    Composed =>
       /\ BlockOrder(last.result.doc.paragraphs)
             = <<"logo", "header", "title", "body", "footer">>
       /\ BlocksAsSpecified(last.result.doc, universities[last.university_code])

\* A document of the MIT has been composed and saved: its first paragraph
\* is the logo placeholder, its second the name of the university.
C16_Witness ==
    /\ Composed
    /\ last.result.success
    /\ last.university_code = "mit"
    /\ last.result.doc.paragraphs[1].text = "[Massachusetts Institute of Technology LOGO]"
    /\ last.result.doc.paragraphs[2].text = "MASSACHUSETTS INSTITUTE OF TECHNOLOGY"
    /\ last.result.doc.core_properties.subject = "University Document: noc"


-----------------------------------------------------------------------------
(* C18: shutdown of the supervisor                                          *)

\* stop_all_processes has finished after a shutdown signal: the handler has
\* come to sys.exit(0)
ShutDown == sup.signalled /\ sup.main.pc = "exited"

\* C18: once stop_all_processes has finished after a shutdown signal, the
\* list of tracked processes is empty and no Backend or Frontend process the
\* supervisor ever started is still running, one the monitor thread was
\* starting again at that moment included.
C18_ShutdownLeavesNoChild ==
    ShutDown =>
        /\ sup.processes = <<>>
        /\ \A c \in DOMAIN sup.children : ~IsAlive(sup.children, c)

-----------------------------------------------------------------------------
(* C19: the monitor keeps every role tracked                                *)

\* The monitor thread ends an attempt to start a role again without a
\* running process of that role
FailedRestart ==
    /\ sup.monitor.pc \in {"popen", "poll"}
    /\ sup'.monitor.pc = "check"
    /\ ~sup'.monitor.ok

\* C19: while the supervisor is running each role is tracked by at most one
\* entry of the process list, and after an attempt of the monitor to start
\* a role again that fails the role is still tracked, so that a later pass
\* of the monitor tries again.
C19_FailedRestartStaysTracked ==
    [][ /\ sup.running =>
            \A role \in Roles : Cardinality(Tracked(sup.processes, role)) <= 1
        /\ FailedRestart /\ sup'.running =>
            Tracked(sup'.processes, sup.monitor.role) # {} ]_vars

=============================================================================
